---- MODULE Spec2Model ----
(***************************************************************************)
(* State-machine model of the car management canister (lib.rs).            *)
(* Every update/query entry point is one atomic action (canister calls run *)
(* to completion one at a time).  `call` and `result` record the latest    *)
(* call and what it returned.  History variables, used only to state       *)
(* properties: `issued` lists the ids the successful add_car calls         *)
(* returned, `deleted` holds the ids of the cars delete_car removed, and   *)
(* lastResOp[c] is Some(r) when the latest successful make_reservation or  *)
(* cancel_reservation on car id c was a make_reservation returning r, and  *)
(* None when there was none yet or it was a cancel_reservation.            *)
(***************************************************************************)
EXTENDS Naturals, Sequences, FiniteSets, TLC

VARIABLES id_counter, cars, customer_counter, customers, reservations,
          now, call, result, issued, deleted, lastResOp

vars == <<id_counter, cars, customer_counter, customers, reservations,
          now, call, result, issued, deleted, lastResOp>>

\* The canister's stable state: two counters and three maps.
store == <<id_counter, cars, customer_counter, customers, reservations>>

history == <<issued, deleted, lastResOp>>

----------------------------------------------------------------------------
\* Bounds of the model.
MaxCars == 2
MaxCustomers == 1
MaxTime == 1
\* The customers of SpecCounters, which leaves the reservations out.
MaxCounterCustomers == 2

\* Validation limits of CarPayload / CustomerPayload.
MinMakeLen == 2
MinModelLen == 2
MinYear == 1880
MaxYear == 2024
MinColorLen == 1
MinNameLen == 1

Callers == {"alice", "bob"}
\* The queries never read caller(): their calls are recorded without one.
NoCaller == ""
CarIds == 0 .. (MaxCars - 1)
CustomerIds == 0 .. (MaxCustomers - 1)
Times == 0 .. MaxTime

\* Payloads offered to add_car / update_car: two valid ones, on the limits of
\* the rules, and two invalid ones (a string too short, a year out of range).
ValidCar1 == [make |-> "To", model |-> "Co", year |-> 1880, color |-> "r", is_booked |-> FALSE]
ValidCar2 == [make |-> "Ford", model |-> "Fiesta", year |-> 2024, color |-> "blue", is_booked |-> TRUE]
CarPayloads ==
    { ValidCar1, ValidCar2,
      [ValidCar1 EXCEPT !.make = "T"],
      [ValidCar2 EXCEPT !.year = 1800] }

CustomerPayloads ==
    { [name |-> "Al", contact |-> ""], [name |-> "", contact |-> "a@x.com"] }

----------------------------------------------------------------------------
\* Option<T>
None == <<>>
Some(v) == <<v>>

\* Result<T, Error>; the msg text of an Error is not modelled.
Ok(v) == [tag |-> "Ok", value |-> <<v>>]
Err(kind) == [tag |-> kind, value |-> <<>>]
\* The reply of add_customer, an Option<Customer>.
Reply(option) == [tag |-> IF option = None THEN "None" ELSE "Some", value |-> option]
\* A trapped call (failed assert!): the caller gets a reject, no reply value.
Trap == [tag |-> "Trap", value |-> <<>>]

\* CarPayload's #[validate] rules.
validate(payload) ==
    /\ Len(payload.make) >= MinMakeLen
    /\ Len(payload.model) >= MinModelLen
    /\ payload.year >= MinYear /\ payload.year <= MaxYear
    /\ Len(payload.color) >= MinColorLen

\* CustomerPayload's #[validate] rules.
validate_customer(payload) == Len(payload.name) >= MinNameLen

\* StableBTreeMap get / insert / remove on each of the three maps.
_get_car(id) == IF id \in DOMAIN cars THEN Some(cars[id]) ELSE None
_get_customer(id) == IF id \in DOMAIN customers THEN Some(customers[id]) ELSE None
_get_reservation(car_id) ==
    IF car_id \in DOMAIN reservations THEN Some(reservations[car_id]) ELSE None

do_insert_car(car) ==
    [k \in DOMAIN cars \cup {car.id} |-> IF k = car.id THEN car ELSE cars[k]]

do_insert_customer(customer) ==
    [k \in DOMAIN customers \cup {customer.id} |->
        IF k = customer.id THEN customer ELSE customers[k]]

do_insert_reservation_by_customer(reservation) ==
    [k \in DOMAIN reservations \cup {reservation.customer_id} |->
        IF k = reservation.customer_id THEN reservation ELSE reservations[k]]

do_insert_reservation(reservation) ==
    [k \in DOMAIN reservations \cup {reservation.car_id} |->
        IF k = reservation.car_id THEN reservation ELSE reservations[k]]

remove_car_keeps(id) == cars

remove_car(id) == [k \in DOMAIN cars \ {id} |-> cars[k]]

remove_customer(id) == [k \in DOMAIN customers \ {id} |-> customers[k]]

remove_reservation(car_id) == [k \in DOMAIN reservations \ {car_id} |-> reservations[k]]

\* caller() against the stored owner.
_check_if_owner_always(car, c) == TRUE

_check_if_owner(car, c) == IF car.owner # c THEN FALSE ELSE TRUE

\* The value add_car stores back into ID_COUNTER.
incremented_stuck(current_value) == current_value

incremented(current_value) == current_value + 1

----------------------------------------------------------------------------
Init ==
    /\ id_counter = 0
    /\ cars = << >>
    /\ customer_counter = 0
    /\ customers = << >>
    /\ reservations = << >>
    /\ now = 0
    /\ call = [op |-> "init", caller |-> "", args |-> << >>]
    /\ result = Err("none")
    /\ issued = << >>
    /\ deleted = {}
    /\ lastResOp = [c \in CarIds |-> None]

\* Every call: who calls, with what, and the value time() has during it.
\* time() never goes backwards from one message to the next; `now` is its
\* latest value the canister has read, so a call that does not read time()
\* leaves it as it is.
Called(op, c, t, args) ==
    /\ t \in Times /\ t >= now
    /\ now' = t
    /\ call' = [op |-> op, caller |-> c, args |-> args]

----------------------------------------------------------------------------
\* Queries

get_car_result(id) ==
    IF _get_car(id) # None THEN Ok(_get_car(id)[1]) ELSE Err("NotFound")

get_car_consumes(id) ==
    /\ Called("get_car", NoCaller, now, [id |-> id])
    /\ result' = get_car_result(id)
    /\ cars' = [k \in DOMAIN cars \ {id} |-> cars[k]]
    /\ UNCHANGED <<id_counter, customer_counter, customers, reservations, history>>

get_car(id) ==
    /\ Called("get_car", NoCaller, now, [id |-> id])
    /\ result' = get_car_result(id)
    /\ UNCHANGED <<store, history>>

is_booked_result(id) ==
    IF _get_car(id) # None THEN Ok(_get_car(id)[1].is_booked) ELSE Err("NotFound")

is_booked(id) ==
    /\ Called("is_booked", NoCaller, now, [id |-> id])
    /\ result' = is_booked_result(id)
    /\ UNCHANGED <<store, history>>

get_customer_result(id) ==
    IF _get_customer(id) # None THEN Ok(_get_customer(id)[1]) ELSE Err("NotFound")

get_customer(id) ==
    /\ Called("get_customer", NoCaller, now, [id |-> id])
    /\ result' = get_customer_result(id)
    /\ UNCHANGED <<store, history>>

get_reservation_result(car_id) ==
    IF _get_reservation(car_id) # None
    THEN Ok(_get_reservation(car_id)[1]) ELSE Err("NotFound")

get_reservation(car_id) ==
    /\ Called("get_reservation", NoCaller, now, [car_id |-> car_id])
    /\ result' = get_reservation_result(car_id)
    /\ UNCHANGED <<store, history>>

RECURSIVE report_from_descending(_)
report_from_descending(keys) ==
    IF keys = {} THEN << >>
    ELSE LET k == CHOOSE x \in keys : \A y \in keys : x >= y
         IN <<cars[k]>> \o report_from_descending(keys \ {k})

\* The stored cars in ascending key order.
RECURSIVE report_from(_)
report_from(keys) ==
    IF keys = {} THEN << >>
    ELSE LET k == CHOOSE x \in keys : \A y \in keys : x <= y
         IN <<cars[k]>> \o report_from(keys \ {k})

generate_report_result == report_from(DOMAIN cars)

generate_report ==
    /\ Called("generate_report", NoCaller, now, << >>)
    /\ result' = Ok(generate_report_result)
    /\ UNCHANGED <<store, history>>

----------------------------------------------------------------------------
\* Vehicle updates

new_car_next_id(id, car, c, t) ==
    [id |-> id + 1, make |-> car.make, model |-> car.model, year |-> car.year,
     color |-> car.color, created_at |-> t, updated_at |-> None,
     owner |-> c, is_booked |-> car.is_booked]

new_car(id, car, c, t) ==
    [id |-> id, make |-> car.make, model |-> car.model, year |-> car.year,
     color |-> car.color, created_at |-> t, updated_at |-> None,
     owner |-> c, is_booked |-> car.is_booked]

add_car_counts_first(c, t, car) ==
    /\ id_counter < MaxCars
    /\ Called("add_car", c, t, [car |-> car])
    /\ id_counter' = incremented(id_counter)
    /\ UNCHANGED <<customer_counter, customers, reservations, deleted, lastResOp>>
    /\ IF ~validate(car)
       THEN /\ result' = Err("ValidationErrors")
            /\ UNCHANGED <<cars, issued>>
       ELSE LET id == id_counter
                stored == new_car(id, car, c, t)
            IN /\ cars' = do_insert_car(stored)
               /\ result' = Ok(stored)
               /\ issued' = Append(issued, id)

add_car(c, t, car) ==
    /\ validate(car) => id_counter < MaxCars
    /\ Called("add_car", c, t, [car |-> car])
    /\ UNCHANGED <<customer_counter, customers, reservations, deleted, lastResOp>>
    /\ IF ~validate(car)
       THEN /\ result' = Err("ValidationErrors")
            /\ UNCHANGED <<id_counter, cars, issued>>
       ELSE LET id == id_counter    \* Cell::set returns the previous value
                stored == new_car(id, car, c, t)
            IN /\ id_counter' = incremented(id_counter)
               /\ cars' = do_insert_car(stored)
               /\ result' = Ok(stored)
               /\ issued' = Append(issued, id)

\* The fields update_car overwrites on the fetched record.
updated_car_restamps(car, payload, c, t) ==
    [car EXCEPT !.make = payload.make, !.model = payload.model,
                !.year = payload.year, !.color = payload.color,
                !.updated_at = Some(t), !.is_booked = payload.is_booked,
                !.created_at = t]

updated_car_keeps_stamp(car, payload, c, t) ==
    [car EXCEPT !.make = payload.make, !.model = payload.model,
                !.year = payload.year, !.color = payload.color,
                !.is_booked = payload.is_booked]

updated_car(car, payload, c, t) ==
    [car EXCEPT !.make = payload.make, !.model = payload.model,
                !.year = payload.year, !.color = payload.color,
                !.updated_at = Some(t), !.is_booked = payload.is_booked]

update_car_looks_up_first(c, t, id, payload) ==
    /\ Called("update_car", c, t, [id |-> id, payload |-> payload])
    /\ UNCHANGED <<id_counter, customer_counter, customers, reservations, history>>
    /\ IF _get_car(id) = None
       THEN /\ result' = Err("NotFound")
            /\ UNCHANGED cars
       ELSE LET car == _get_car(id)[1]
            IN IF ~_check_if_owner(car, c)
               THEN /\ result' = Err("NotAuthorized")
                    /\ UNCHANGED cars
               ELSE IF ~validate(payload)
               THEN /\ result' = Err("ValidationErrors")
                    /\ UNCHANGED cars
               ELSE /\ cars' = do_insert_car(updated_car(car, payload, c, t))
                    /\ result' = Ok(updated_car(car, payload, c, t))

update_car(c, t, id, payload) ==
    /\ Called("update_car", c, t, [id |-> id, payload |-> payload])
    /\ UNCHANGED <<id_counter, customer_counter, customers, reservations, history>>
    /\ IF ~validate(payload)
       THEN /\ result' = Err("ValidationErrors")
            /\ UNCHANGED cars
       ELSE IF _get_car(id) = None
       THEN /\ result' = Err("NotFound")
            /\ UNCHANGED cars
       ELSE LET car == _get_car(id)[1]
            IN IF ~_check_if_owner(car, c)
               THEN /\ result' = Err("NotAuthorized")
                    /\ UNCHANGED cars
               ELSE /\ cars' = do_insert_car(updated_car(car, payload, c, t))
                    /\ result' = Ok(updated_car(car, payload, c, t))

delete_car_cascades(c, id) ==
    /\ Called("delete_car", c, now, [id |-> id])
    /\ UNCHANGED <<id_counter, customer_counter, customers, issued, lastResOp>>
    /\ IF _get_car(id) = None
       THEN /\ result' = Err("NotFound")
            /\ UNCHANGED <<cars, reservations, deleted>>
       ELSE LET car == _get_car(id)[1]
            IN IF ~_check_if_owner(car, c)
               THEN /\ result' = Err("NotAuthorized")
                    /\ UNCHANGED <<cars, reservations, deleted>>
               ELSE /\ cars' = remove_car(id)
                    /\ reservations' = remove_reservation(id)
                    /\ result' = Ok(car)
                    /\ deleted' = deleted \cup {id}

delete_car(c, id) ==
    /\ Called("delete_car", c, now, [id |-> id])
    /\ UNCHANGED <<id_counter, customer_counter, customers, reservations,
                   issued, lastResOp>>
    /\ IF _get_car(id) = None
       THEN /\ result' = Err("NotFound")
            /\ UNCHANGED <<cars, deleted>>
       ELSE LET car == _get_car(id)[1]
            IN IF ~_check_if_owner(car, c)
               THEN /\ result' = Err("NotAuthorized")
                    /\ UNCHANGED <<cars, deleted>>
               ELSE /\ cars' = remove_car(id)
                    /\ result' = Ok(car)
                    /\ deleted' = deleted \cup {id}

----------------------------------------------------------------------------
\* Customer updates

add_customer_shares_counter(c, payload) ==
    /\ Called("add_customer", c, now, [payload |-> payload])
    /\ UNCHANGED <<customer_counter, cars, reservations, history>>
    /\ IF ~validate_customer(payload)
       THEN /\ result' = Trap
            /\ UNCHANGED <<id_counter, customers>>
       ELSE LET id == id_counter
                customer == [id |-> id, name |-> payload.name,
                             contact |-> payload.contact]
            IN /\ id_counter' = id_counter + 1
               /\ customers' = do_insert_customer(customer)
               /\ result' = Reply(Some(customer))

add_customer(c, payload) ==
    /\ Called("add_customer", c, now, [payload |-> payload])
    /\ UNCHANGED <<id_counter, cars, reservations, history>>
    /\ IF ~validate_customer(payload)
       THEN \* assert! fails: the call traps and its changes are discarded
            /\ result' = Trap
            /\ UNCHANGED <<customer_counter, customers>>
       ELSE LET id == customer_counter
                customer == [id |-> id, name |-> payload.name,
                             contact |-> payload.contact]
            IN /\ customer_counter' = customer_counter + 1
               /\ customers' = do_insert_customer(customer)
               /\ result' = Reply(Some(customer))

delete_customer_checks_car_owner(c, id) ==
    /\ Called("delete_customer", c, now, [id |-> id])
    /\ UNCHANGED <<id_counter, cars, customer_counter, reservations, history>>
    /\ IF _get_customer(id) # None
       THEN IF _get_car(id) # None /\ ~_check_if_owner(_get_car(id)[1], c)
            THEN /\ result' = Err("NotAuthorized")
                 /\ UNCHANGED customers
            ELSE /\ customers' = remove_customer(id)
                 /\ result' = Ok(_get_customer(id)[1])
       ELSE /\ result' = Err("NotFound")
            /\ UNCHANGED customers

delete_customer(c, id) ==
    /\ Called("delete_customer", c, now, [id |-> id])
    /\ UNCHANGED <<id_counter, cars, customer_counter, reservations, history>>
    /\ IF _get_customer(id) # None
       THEN /\ customers' = remove_customer(id)
            /\ result' = Ok(_get_customer(id)[1])
       ELSE /\ result' = Err("NotFound")
            /\ UNCHANGED customers

----------------------------------------------------------------------------
\* Reservation updates

\* The match of make_reservation: both lookups must return Some.
both_found_car_only(car_id, customer_id) == _get_car(car_id) # None

both_found(car_id, customer_id) ==
    _get_car(car_id) # None /\ _get_customer(customer_id) # None

\* The guard that rejects a booking.
already_booked_never(car) == FALSE

already_booked_or_reserved(car) == car.is_booked \/ car.id \in DOMAIN reservations

already_booked(car) == car.is_booked

make_reservation_sets_flag(c, t, car_id, customer_id) ==
    /\ Called("make_reservation", c, t,
              [car_id |-> car_id, customer_id |-> customer_id])
    /\ UNCHANGED <<id_counter, customer_counter, customers, issued, deleted>>
    /\ IF both_found(car_id, customer_id)
       THEN IF already_booked(_get_car(car_id)[1])
            THEN /\ result' = Err("AlreadyBooked")
                 /\ UNCHANGED <<cars, reservations, lastResOp>>
            ELSE LET reservation == [car_id |-> car_id,
                                     customer_id |-> customer_id,
                                     reservation_time |-> t]
                 IN /\ reservations' = do_insert_reservation(reservation)
                    /\ cars' = [cars EXCEPT ![car_id].is_booked = TRUE]
                    /\ result' = Ok(reservation)
                    /\ lastResOp' = [lastResOp EXCEPT ![car_id] = Some(reservation)]
       ELSE /\ result' = Err("NotFound")
            /\ UNCHANGED <<cars, reservations, lastResOp>>

make_reservation(c, t, car_id, customer_id) ==
    /\ Called("make_reservation", c, t,
              [car_id |-> car_id, customer_id |-> customer_id])
    /\ UNCHANGED <<id_counter, cars, customer_counter, customers, issued, deleted>>
    /\ IF both_found(car_id, customer_id)
       THEN IF already_booked(_get_car(car_id)[1])
            THEN /\ result' = Err("AlreadyBooked")
                 /\ UNCHANGED <<reservations, lastResOp>>
            ELSE LET reservation == [car_id |-> car_id,
                                     customer_id |-> customer_id,
                                     reservation_time |-> t]
                 IN /\ reservations' = do_insert_reservation(reservation)
                    /\ result' = Ok(reservation)
                    /\ lastResOp' = [lastResOp EXCEPT ![car_id] = Some(reservation)]
       ELSE /\ result' = Err("NotFound")
            /\ UNCHANGED <<reservations, lastResOp>>

cancel_reservation_owner_only(c, car_id) ==
    /\ Called("cancel_reservation", c, now, [car_id |-> car_id])
    /\ UNCHANGED <<id_counter, cars, customer_counter, customers, issued, deleted>>
    /\ IF _get_reservation(car_id) # None
       THEN IF _get_car(car_id) # None /\ ~_check_if_owner(_get_car(car_id)[1], c)
            THEN /\ result' = Err("NotAuthorized")
                 /\ UNCHANGED <<reservations, lastResOp>>
            ELSE /\ reservations' = remove_reservation(car_id)
                 /\ result' = Ok(<< >>)
                 /\ lastResOp' = [lastResOp EXCEPT ![car_id] = None]
       ELSE /\ result' = Err("NotFound")
            /\ UNCHANGED <<reservations, lastResOp>>

cancel_reservation(c, car_id) ==
    /\ Called("cancel_reservation", c, now, [car_id |-> car_id])
    /\ UNCHANGED <<id_counter, cars, customer_counter, customers, issued, deleted>>
    /\ IF _get_reservation(car_id) # None
       THEN /\ reservations' = remove_reservation(car_id)
            /\ result' = Ok(<< >>)
            /\ lastResOp' = [lastResOp EXCEPT ![car_id] = None]
       ELSE /\ result' = Err("NotFound")
            /\ UNCHANGED <<reservations, lastResOp>>

----------------------------------------------------------------------------
CarUpdates ==
    \E c \in Callers :
        \/ \E t \in Times, car \in CarPayloads : add_car(c, t, car)
        \/ \E t \in Times, id \in CarIds, payload \in CarPayloads :
              update_car(c, t, id, payload)
        \/ \E id \in CarIds : delete_car(c, id)

CarQueries ==
    \/ \E id \in CarIds : get_car(id)
    \/ \E id \in CarIds : is_booked(id)
    \/ generate_report

CustomerCalls ==
    \/ \E c \in Callers, payload \in CustomerPayloads :
          /\ validate_customer(payload) => customer_counter < MaxCustomers
          /\ add_customer(c, payload)
    \/ \E c \in Callers, id \in CustomerIds : delete_customer(c, id)
    \/ \E id \in CustomerIds : get_customer(id)

ReservationCalls ==
    \/ \E c \in Callers, t \in Times, car_id \in CarIds, customer_id \in CustomerIds :
          make_reservation(c, t, car_id, customer_id)
    \/ \E c \in Callers, car_id \in CarIds : cancel_reservation(c, car_id)
    \/ \E car_id \in CarIds : get_reservation(car_id)

Next == CarUpdates \/ CarQueries \/ CustomerCalls \/ ReservationCalls

Spec == Init /\ [][Next]_vars

\* The two counters and the calls that add and delete what they number, with
\* more customers than Spec has.
CounterNext ==
    \/ \E c \in Callers, t \in Times, car \in CarPayloads : add_car(c, t, car)
    \/ \E c \in Callers, id \in CarIds : delete_car(c, id)
    \/ \E id \in CarIds : get_car(id)
    \/ \E c \in Callers, payload \in CustomerPayloads :
          /\ validate_customer(payload) => customer_counter < MaxCounterCustomers
          /\ add_customer(c, payload)
    \/ \E c \in Callers, id \in 0 .. (MaxCounterCustomers - 1) : delete_customer(c, id)
    \/ \E id \in 0 .. (MaxCounterCustomers - 1) : get_customer(id)

SpecCounters == Init /\ [][CounterNext]_vars

----------------------------------------------------------------------------
\* Properties.  In an action formula, call' and result' are the call made by
\* the step and what it returned; unprimed variables are the state before it.

IsCall(op) == call'.op = op

\* C1: the ids returned by the successful add_car calls are 0, 1, 2, ... in
\* call order, whatever other calls (failed ones, updates, deletes) come in
\* between: the i-th returned id is i - 1, so none is returned twice, also
\* not after the car that held it was deleted.
C1_IdsSequential ==
    /\ \A i \in 1 .. Len(issued) : issued[i] = i - 1
    /\ (call.op = "add_car" /\ result.tag = "Ok") =>
          /\ Len(issued) > 0
          /\ result.value[1].id = issued[Len(issued)]

C1_Witness ==
    /\ call.op = "add_car" /\ result.tag = "Ok"
    /\ result.value[1].id = 1
    /\ 0 \in deleted

\* C2: an add_car whose payload fails validation returns ValidationErrors
\* and leaves the whole store as it was (counter not advanced, no car
\* stored); a successful add_car returns the id the counter held before it.
C2_FailedAddChangesNothing ==
    [][ IsCall("add_car") =>
          IF ~validate(call'.args.car)
          THEN result' = Err("ValidationErrors") /\ UNCHANGED store
          ELSE result'.tag = "Ok" /\ result'.value[1].id = id_counter ]_vars

C2_Witness ==
    /\ call.op = "add_car" /\ result.tag = "ValidationErrors"
    /\ id_counter = 1 /\ 0 \in DOMAIN cars

\* C3: update_car with a valid payload, and delete_car, on a stored car by a
\* caller other than its owner return NotAuthorized and change nothing.
C3_NonOwnerRejected ==
    [][ ( /\ \/ IsCall("update_car") /\ validate(call'.args.payload)
             \/ IsCall("delete_car")
          /\ call'.args.id \in DOMAIN cars
          /\ cars[call'.args.id].owner # call'.caller )
        => (result' = Err("NotAuthorized") /\ UNCHANGED store) ]_vars

C3_Witness ==
    /\ call.op \in {"update_car", "delete_car"}
    /\ result.tag = "NotAuthorized"
    /\ call.args.id \in DOMAIN cars
    /\ DOMAIN customers # {}

\* C4: make_reservation for an existing car whose is_booked flag is true and
\* an existing customer returns AlreadyBooked and leaves the reservation map
\* unchanged.
C4_BookedCarRejected ==
    [][ ( /\ IsCall("make_reservation")
          /\ call'.args.car_id \in DOMAIN cars
          /\ call'.args.customer_id \in DOMAIN customers
          /\ cars[call'.args.car_id].is_booked )
        => (result' = Err("AlreadyBooked") /\ UNCHANGED reservations) ]_vars

\* A booked car that already has a reservation (made before the flag was set).
C4_Witness ==
    /\ call.op = "make_reservation" /\ result.tag = "AlreadyBooked"
    /\ call.args.car_id \in DOMAIN reservations

\* C5: make_reservation returns NotFound and writes nothing when the car or
\* the customer is absent; so a step that returns or stores a reservation
\* names a car and a customer that exist at that moment.
C5_ReservationNeedsBoth ==
    [][ /\ ( /\ IsCall("make_reservation")
             /\ \/ call'.args.car_id \notin DOMAIN cars
                \/ call'.args.customer_id \notin DOMAIN customers )
           => (result' = Err("NotFound") /\ UNCHANGED reservations)
        /\ \A k \in DOMAIN reservations' :
              (k \notin DOMAIN reservations \/ reservations'[k] # reservations[k]
                 \/ (IsCall("make_reservation") /\ result'.tag = "Ok"
                      /\ call'.args.car_id = k))
              => /\ reservations'[k].car_id \in DOMAIN cars
                 /\ reservations'[k].customer_id \in DOMAIN customers
                 /\ reservations'[k].car_id \in DOMAIN cars'
                 /\ reservations'[k].customer_id \in DOMAIN customers' ]_vars

\* The customer is missing (deleted) although the car exists.
C5_Witness ==
    /\ call.op = "make_reservation" /\ result.tag = "NotFound"
    /\ call.args.car_id \in DOMAIN cars
    /\ call.args.customer_id \notin DOMAIN customers
    /\ customer_counter > call.args.customer_id

\* C6: in every state get_reservation(c) returns the record returned by the
\* latest successful make_reservation on c when no successful
\* cancel_reservation(c) came after it, and NotFound otherwise (none made
\* yet, or the latest successful one was a cancel); a get_reservation call
\* returns just that, and cancel_reservation with nothing stored for the car
\* returns NotFound and changes nothing.
C6_ReservationFollowsLastOp ==
    /\ [](\A c \in CarIds :
             get_reservation_result(c) =
                IF lastResOp[c] # None THEN Ok(lastResOp[c][1]) ELSE Err("NotFound"))
    /\ [][ /\ (IsCall("make_reservation") /\ result'.tag = "Ok")
              => lastResOp'[call'.args.car_id] = result'.value
           /\ (IsCall("cancel_reservation") /\ result'.tag = "Ok")
              => lastResOp'[call'.args.car_id] = None
           /\ IsCall("get_reservation")
              => result' = IF lastResOp[call'.args.car_id] # None
                           THEN Ok(lastResOp[call'.args.car_id][1])
                           ELSE Err("NotFound")
           /\ (IsCall("cancel_reservation")
                 /\ call'.args.car_id \notin DOMAIN reservations)
              => (result' = Err("NotFound") /\ UNCHANGED store) ]_vars

\* A reservation read back at a later time than it was made.
C6_Witness ==
    /\ call.op = "get_reservation" /\ result.tag = "Ok"
    /\ result.value = lastResOp[call.args.car_id]
    /\ result.value[1].reservation_time < now

\* C7: delete_car by the stored owner returns the stored record and removes
\* it, and in every later state get_car of a deleted id is NotFound.
C7_DeletedStaysDeleted ==
    /\ [](\A id \in deleted : get_car_result(id) = Err("NotFound"))
    /\ [][ ( /\ IsCall("delete_car")
             /\ call'.args.id \in DOMAIN cars
             /\ cars[call'.args.id].owner = call'.caller )
           => /\ result' = Ok(cars[call'.args.id])
              /\ call'.args.id \notin DOMAIN cars'
              /\ call'.args.id \in deleted' ]_vars

\* The next car was added after the delete, and the deleted id is looked up.
C7_Witness ==
    /\ call.op = "get_car" /\ result.tag = "NotFound"
    /\ call.args.id \in deleted
    /\ DOMAIN cars # {}

\* C8: a car keeps its id (equal to its key), created_at and owner from one
\* state to the next for as long as it is stored, whatever the step is.
C8_IdentityImmutable ==
    [][ \A id \in DOMAIN cars :
           /\ cars[id].id = id
           /\ id \in DOMAIN cars' =>
                 /\ cars'[id].id = cars[id].id
                 /\ cars'[id].created_at = cars[id].created_at
                 /\ cars'[id].owner = cars[id].owner ]_vars

\* An update made at a later time than the creation.
C8_Witness ==
    /\ call.op = "update_car" /\ result.tag = "Ok"
    /\ result.value[1].created_at < now
    /\ result.value[1].updated_at = Some(now)
    /\ cars[call.args.id] = result.value[1]

\* C9: a new car has updated_at = None; a successful update_car sets the
\* car's updated_at to Some(t) with t not below the previous value; every
\* other step (failed updates included) leaves updated_at as it is.
C9_UpdatedAtMonotonic ==
    [][ /\ \A id \in DOMAIN cars' \ DOMAIN cars : cars'[id].updated_at = None
        /\ \A id \in DOMAIN cars \cap DOMAIN cars' :
              IF IsCall("update_car") /\ result'.tag = "Ok" /\ call'.args.id = id
              THEN /\ cars'[id].updated_at # None
                   /\ cars[id].updated_at # None
                         => cars'[id].updated_at[1] >= cars[id].updated_at[1]
                   /\ cars'[id].updated_at[1] >= cars[id].created_at
              ELSE cars'[id].updated_at = cars[id].updated_at ]_vars

\* A rejected update of a car that was updated before.
C9_Witness ==
    /\ call.op = "update_car" /\ result.tag # "Ok"
    /\ call.args.id \in DOMAIN cars
    /\ cars[call.args.id].updated_at # None
    /\ cars[call.args.id].updated_at[1] > cars[call.args.id].created_at

\* C10: update_car with an invalid payload returns ValidationErrors for any
\* id and caller; update_car with a valid payload and delete_car return
\* NotFound for an absent id whoever calls, and NotAuthorized exactly when
\* the car exists and the caller is not its owner; no failed call changes
\* the store.
C10_ErrorPrecedence ==
    [][ /\ (IsCall("update_car") /\ ~validate(call'.args.payload))
           => result' = Err("ValidationErrors")
        /\ ( /\ \/ IsCall("update_car") /\ validate(call'.args.payload)
                \/ IsCall("delete_car")
             /\ call'.args.id \notin DOMAIN cars )
           => result' = Err("NotFound")
        /\ (call'.op \in {"update_car", "delete_car"} /\ result'.tag = "NotAuthorized")
           => /\ call'.args.id \in DOMAIN cars
              /\ cars[call'.args.id].owner # call'.caller
        /\ (call'.op \in {"update_car", "delete_car"} /\ result'.tag # "Ok")
           => UNCHANGED store ]_vars

\* An invalid payload sent by a non-owner, and one sent for an absent id.
C10_Witness ==
    /\ call.op = "update_car" /\ result.tag = "ValidationErrors"
    /\ \/ call.args.id \notin DOMAIN cars
       \/ cars[call.args.id].owner # call.caller
    /\ DOMAIN cars # {}

\* C11: make_reservation and cancel_reservation, successful or not, leave
\* the vehicle map unchanged; a car's is_booked flag is the one of the payload
\* of the successful add_car or update_car that stored it, and no other step
\* changes it, whether or not a reservation is stored for the car.
C11_FlagFollowsPayload ==
    [][ /\ call'.op \in {"make_reservation", "cancel_reservation"}
           => UNCHANGED <<cars, id_counter>>
        /\ \A id \in DOMAIN cars' :
              IF IsCall("add_car") /\ result'.tag = "Ok" /\ result'.value[1].id = id
              THEN cars'[id].is_booked = call'.args.car.is_booked
              ELSE IF IsCall("update_car") /\ result'.tag = "Ok" /\ call'.args.id = id
              THEN cars'[id].is_booked = call'.args.payload.is_booked
              ELSE id \in DOMAIN cars /\ cars'[id].is_booked = cars[id].is_booked ]_vars

\* A reservation has just been made for a car whose flag stays false.
C11_Witness ==
    /\ call.op = "make_reservation" /\ result.tag = "Ok"
    /\ ~cars[call.args.car_id].is_booked
    /\ call.args.car_id \in DOMAIN reservations

C13_FailedAddCustomerReturnsError ==
    [][ (IsCall("add_customer") /\ ~validate_customer(call'.args.payload))
        => (result' = Err("ValidationErrors") /\ UNCHANGED store) ]_vars

\* C14: the successful add_customer calls return the customer counter's
\* value, which starts at 0 and which only they change, by one each; so they
\* return 0, 1, 2, ... however many add_car calls come in between, and an id
\* freed by delete_customer is not given out again.  add_car leaves the
\* customer counter alone and add_customer the vehicle counter.
C14_CustomerIdsIndependent ==
    /\ [](call.op = "init" => customer_counter = 0)
    /\ [](\A k \in DOMAIN customers : k < customer_counter)
    /\ [][ IF IsCall("add_customer") /\ result'.tag = "Some"
           THEN /\ result'.value[1].id = customer_counter
                /\ customer_counter' = customer_counter + 1
                /\ id_counter' = id_counter
           ELSE /\ customer_counter' = customer_counter
                /\ IsCall("add_customer") => id_counter' = id_counter ]_vars

\* The second customer, added after a car was added and the first customer
\* was deleted.
C14_Witness ==
    /\ call.op = "add_customer" /\ result.tag = "Some"
    /\ result.value[1].id = 1
    /\ 0 \notin DOMAIN customers
    /\ id_counter > 0

\* C15: get_car, is_booked, generate_report, get_customer and
\* get_reservation change nothing of the store, and what such a call returns
\* is what the same query returns in the state it leaves behind, that is,
\* when it is repeated at once.
Queries == {"get_car", "is_booked", "generate_report", "get_customer", "get_reservation"}

C15_QueriesReadOnly ==
    [][ /\ call'.op \in Queries => UNCHANGED store
        /\ IsCall("generate_report")
           => /\ result' = Ok(generate_report_result)
              /\ result' = Ok(generate_report_result)'
        /\ \A id \in CarIds \cup CustomerIds :
              /\ (IsCall("get_car") /\ call'.args.id = id)
                 => (result' = get_car_result(id) /\ result' = get_car_result(id)')
              /\ (IsCall("is_booked") /\ call'.args.id = id)
                 => (result' = is_booked_result(id) /\ result' = is_booked_result(id)')
              /\ (IsCall("get_customer") /\ call'.args.id = id)
                 => (result' = get_customer_result(id)
                     /\ result' = get_customer_result(id)')
              /\ (IsCall("get_reservation") /\ call'.args.car_id = id)
                 => (result' = get_reservation_result(id)
                     /\ result' = get_reservation_result(id)') ]_vars

\* A get_car that found an updated car, and would find the same again.
C15_Witness ==
    /\ call.op = "get_car" /\ result.tag = "Ok"
    /\ result = get_car_result(call.args.id)
    /\ cars[call.args.id].updated_at # None

\* C16: generate_report lists exactly the stored cars, each once, by
\* ascending id; the stored cars are those added and not deleted since, each
\* as its latest successful add_car or update_car returned it.
C16_ReportIsStoredCars ==
    /\ [](LET r == generate_report_result
          IN /\ Len(r) = Cardinality(DOMAIN cars)
             /\ \A i \in 1 .. Len(r) : r[i].id \in DOMAIN cars /\ r[i] = cars[r[i].id]
             /\ \A i, j \in 1 .. Len(r) : i < j => r[i].id < r[j].id
             /\ DOMAIN cars = {issued[i] : i \in 1 .. Len(issued)} \ deleted)
    /\ [][ /\ IsCall("generate_report") => result' = Ok(generate_report_result)
           /\ \A id \in DOMAIN cars' :
                 IF /\ call'.op \in {"add_car", "update_car"} /\ result'.tag = "Ok"
                    /\ result'.value[1].id = id
                 THEN cars'[id] = result'.value[1]
                 ELSE id \in DOMAIN cars /\ cars'[id] = cars[id] ]_vars

\* A report of two cars, the first of them updated after the second was added.
C16_Witness ==
    /\ call.op = "generate_report"
    /\ Len(result.value[1]) = 2
    /\ result.value[1][1].updated_at # None
    /\ result.value[1][1].updated_at[1] >= result.value[1][2].created_at
    /\ result.value[1][1].id < result.value[1][2].id

\* C17: delete_car and delete_customer leave the reservation map unchanged;
\* a reservation whose car or customer is gone is still returned by
\* get_reservation and still removed, with success, by cancel_reservation.
Dangling(k) ==
    /\ k \in DOMAIN reservations
    /\ \/ reservations[k].car_id \notin DOMAIN cars
       \/ reservations[k].customer_id \notin DOMAIN customers

C17_DanglingReservations ==
    [][ /\ call'.op \in {"delete_car", "delete_customer"} => UNCHANGED reservations
        /\ \A k \in CarIds :
              Dangling(k) =>
                 /\ (IsCall("get_reservation") /\ call'.args.car_id = k)
                    => result' = Ok(reservations[k])
                 /\ (IsCall("cancel_reservation") /\ call'.args.car_id = k)
                    => /\ result' = Ok(<< >>)
                       /\ k \notin DOMAIN reservations' ]_vars

\* A reservation read back after both its car and its customer were deleted.
C17_Witness ==
    /\ call.op = "get_reservation" /\ result.tag = "Ok"
    /\ result.value[1].car_id \in deleted
    /\ result.value[1].car_id \notin DOMAIN cars
    /\ result.value[1].customer_id \notin DOMAIN customers

\* C18: whoever calls it, delete_customer returns NotFound and changes
\* nothing when the customer is absent, and otherwise returns the stored
\* customer and removes it (and nothing else), so that get_customer of the
\* id is NotFound afterwards.
C18_DeleteCustomerAnyCaller ==
    [][ \A id \in CustomerIds \cup 0 .. (MaxCounterCustomers - 1) :
           (IsCall("delete_customer") /\ call'.args.id = id) =>
              IF id \in DOMAIN customers
              THEN /\ result' = Ok(customers[id])
                   /\ customers' = [k \in DOMAIN customers \ {id} |-> customers[k]]
                   /\ get_customer_result(id)' = Err("NotFound")
                   /\ UNCHANGED <<id_counter, cars, customer_counter, reservations>>
              ELSE result' = Err("NotFound") /\ UNCHANGED store ]_vars

\* A customer deleted by someone who owns no car, while a car with the
\* customer's id belongs to somebody else.
C18_Witness ==
    /\ call.op = "delete_customer" /\ result.tag = "Ok"
    /\ call.args.id \notin DOMAIN customers
    /\ call.args.id \in DOMAIN cars
    /\ \A k \in DOMAIN cars : cars[k].owner # call.caller

\* C19: every car stored under key k has id k, with k below the vehicle
\* counter; every customer stored under k has id k, with k below the customer
\* counter; every reservation stored under k has car_id k.
C19_KeysMatchIds ==
    /\ \A k \in DOMAIN cars : cars[k].id = k /\ k < id_counter
    /\ \A k \in DOMAIN customers : customers[k].id = k /\ k < customer_counter
    /\ \A k \in DOMAIN reservations : reservations[k].car_id = k

\* All three maps hold something, the reservation for the second car.
C19_Witness ==
    /\ DOMAIN cars = CarIds
    /\ DOMAIN customers # {}
    /\ (MaxCars - 1) \in DOMAIN reservations

\* C20: what make_reservation and cancel_reservation return and store is
\* fixed by the state and the arguments (and the time) alone: for every
\* caller the step is the one written here without the caller, so two calls
\* from one state that differ in the caller only give the same reply and the
\* same next state.  A caller who does not own the car can thus cancel or
\* replace its reservation.
C20_ReservationCallerFree ==
    [][ /\ IsCall("make_reservation") =>
              LET car_id == call'.args.car_id
                  customer_id == call'.args.customer_id
                  made == [car_id |-> car_id, customer_id |-> customer_id,
                           reservation_time |-> now']
              IN IF car_id \in DOMAIN cars /\ customer_id \in DOMAIN customers
                 THEN IF cars[car_id].is_booked
                      THEN result' = Err("AlreadyBooked") /\ UNCHANGED store
                      ELSE /\ result' = Ok(made)
                           /\ reservations' =
                                 [k \in DOMAIN reservations \cup {car_id} |->
                                     IF k = car_id THEN made ELSE reservations[k]]
                           /\ UNCHANGED <<id_counter, cars, customer_counter, customers>>
                 ELSE result' = Err("NotFound") /\ UNCHANGED store
        /\ IsCall("cancel_reservation") =>
              LET car_id == call'.args.car_id
              IN IF car_id \in DOMAIN reservations
                 THEN /\ result' = Ok(<< >>)
                      /\ reservations' =
                            [k \in DOMAIN reservations \ {car_id} |-> reservations[k]]
                      /\ UNCHANGED <<id_counter, cars, customer_counter, customers>>
                 ELSE result' = Err("NotFound") /\ UNCHANGED store ]_vars

\* A reservation cancelled by a caller who does not own the (stored) car.
C20_Witness ==
    /\ call.op = "cancel_reservation" /\ result.tag = "Ok"
    /\ call.args.car_id \in DOMAIN cars
    /\ cars[call.args.car_id].owner # call.caller

====
